---- MODULE Spec2Model ----
(***************************************************************************)
(* Credential and session lifecycle of the HR system's AuthService         *)
(* (src/unnamed/part_003), over the User model (src/unnamed/part_004) and  *)
(* the token codec (src/token.js): bootstrap of the admin, invites and     *)
(* their redemption, login with lockout, refresh-token rotation, logout    *)
(* and password change.                                                    *)
(*                                                                         *)
(* Every request is an async function; the code between two awaits on the  *)
(* database runs without interruption, and requests interleave at the      *)
(* awaits.  Each action below is one such block together with the          *)
(* database operation that ends it.  The user a request loaded ("doc") is  *)
(* a private snapshot: later checks read the snapshot, writes go to the    *)
(* store.                                                                  *)
(*                                                                         *)
(* Time is a discrete clock "now".  One tick stands for the resolution of  *)
(* both Date.now() and the JWT "iat" claim, so two operations in the same  *)
(* tick see the same Date.now() and sign with the same iat.  Durations are *)
(* scaled to ticks, keeping their order (lock window < session lifetime).  *)
(***************************************************************************)
EXTENDS Integers, Sequences, FiniteSets, TLC

VARIABLES
    now,        \* the clock: Date.now()
    config,     \* process configuration (env.js), fixed after startup
    users,      \* the User collection: id -> document
    req,        \* the requests in flight: slot -> position, inputs, snapshot, outcome
    issued,     \* refresh tokens handed to clients so far
    nreq,       \* requests started so far
    rotated,    \* history: tokens a rotation has accepted
    rotatedAgain, \* history: tokens a rotation has accepted more than once
    stale,      \* history: tokens issued before the owner's last password change
    failStreak, \* history: consecutive password failures per account
    forgiven,   \* history: the failures the account's last successful login wiped
    loginLog,   \* history: per account, the tokens its successful logins returned
    credential, \* history: per account, the password it was last given
    invited,    \* history: the invites createUser has returned
    redeemed,   \* history: the invite tokens setPassword has accepted
    revoked     \* history: tokens whose session a cap-evicted token's reuse revoked

vars == <<now, config, users, req, issued, nreq, rotated, rotatedAgain, stale,
          failStreak, forgiven, loginLog, credential, invited, redeemed,
          revoked>>

(***************************************************************************)
(* Program constants.                                                      *)
(***************************************************************************)
MAX_LOGIN_ATTEMPTS == 5

\* 30 * 60 * 1000 ms, scaled to ticks
LOCK_DURATION_MS == 1

\* 7 * 24 * 60 * 60 * 1000 ms, scaled to ticks: the stored expiresAt of a
\* session entry, and the default refresh-token lifetime ('7d')
SESSION_TTL_MS == 2

\* cleanTokens.slice(-5)
MAX_SESSIONS == 5

\* config.invite.tokenExpiresHours * 60 * 60 * 1000 ms with the default of
\* 48 hours, scaled to ticks
INVITE_TTL_MS == 2

\* a Date field that is not set (undefined)
NoDate == -1

(***************************************************************************)
(* Bounds of the model.                                                    *)
(***************************************************************************)
\* lockout scenario: requests started, clock range
MaxReqLock == 9
MaxTimeLock == 3

\* sessions, one request at a time: requests started, clock range
MaxReqSeq == 4
MaxTimeSeq == 2

\* sessions, two requests at a time: requests started, clock range
MaxReq == 3
MaxTime == 1

\* lockout, two requests at a time: requests started
MaxReqFail == 5

\* the session cap, two requests at a time: requests started
MaxReqCap == 6

\* onboarding, one request at a time: requests started, clock range
MaxReqOnb == 5
MaxTimeOnb == 2

\* invites, two requests at a time: requests started
MaxReqInv == 3

\* SpecBoot
MaxReqBoot == 2

\* SpecGuard
MaxReqGuard == 3
MaxTimeGuard == 2

\* SpecLong
MaxReqLong == 3
MaxTimeLong == 2

\* SpecEvict
MaxReqEvict == 9
MaxTimeEvict == 1

(***************************************************************************)
(* Values.                                                                 *)
(***************************************************************************)
Slots == {1, 2}

\* email addresses; the unique email stands for the document's _id as well
Emails == {"u1", "u2"}

Passwords == {"pw1", "pw2"}

\* ADMIN_BOOTSTRAP_SECRET, and what a caller may send instead
BootstrapSecrets == {"bootstrapSecret", "guess"}

NoPassword == <<>>

\* bcrypt.hash: one-way; the salt is not modelled, compare() sees through it
BcryptHash(plain) == <<"bcrypt", plain>>

BcryptCompare(candidate, digest) == digest = BcryptHash(candidate)

NoToken == [userId |-> "none", iat |-> NoDate, exp |-> NoDate, sig |-> "none",
            iss |-> "none", aud |-> "none"]

\* jwt.sign({ userId }, refreshSecret, { expiresIn, issuer, audience }):
\* HS256 over {userId, iat, exp, iss, aud}; no jti, so the string is a
\* function of the user and the clock second.
signRefreshToken(userId, t) ==
    [userId |-> userId, iat |-> t, exp |-> t + config.refreshExpiresIn,
     sig |-> "refreshSecret", iss |-> "teamhabour-api",
     aud |-> "teamhabour-client"]

\* jwt.verify: signature, then exp (expired when clock >= exp), audience
\* and issuer
verifyIgnoresExpiry(token, t) ==
    /\ token.sig = "refreshSecret"
    /\ token.aud = "teamhabour-client"
    /\ token.iss = "teamhabour-api"

verifyRefreshToken(token, t) ==
    /\ token.sig = "refreshSecret"
    /\ t < token.exp
    /\ token.aud = "teamhabour-client"
    /\ token.iss = "teamhabour-api"

\* what a caller can present in place of a token it was given: one signed
\* with another key (an access token, say), or for another issuer or audience
Forged(token) ==
    {[token EXCEPT !.sig = "accessSecret"],
     [token EXCEPT !.iss = "other-api"],
     [token EXCEPT !.aud = "other-client"]}

\* sha256 hex digest: deterministic, and never the token itself
hashRaw(token) == token

hashRefreshToken(token) == <<"sha256", token>>

\* an invite field that is not set, and the token a caller made up
NoInvite == <<>>

NoRaw == 0

BogusRaw == 0 - 1

\* generateSecureToken: crypto.randomBytes(32) and its sha256; 256 random
\* bits do not repeat, so the n-th request draws the value n
generateSecureToken(n) == [raw |-> n, hash |-> <<"sha256", n>>]

\* crypto.createHash('sha256').update(inviteToken).digest('hex')
hashInviteToken(raw) == <<"sha256", raw>>

pruneExpiredTokens(tokens, t) == SelectSeq(tokens, LAMBDA e : e.expiresAt > t)

\* Array.prototype.findIndex: 0-based, -1 when absent
FindIndex(tokens, hash) ==
    IF \E i \in 1..Len(tokens) : tokens[i].tokenHash = hash
    THEN (CHOOSE i \in 1..Len(tokens) :
              /\ tokens[i].tokenHash = hash
              /\ \A j \in 1..(i - 1) : tokens[j].tokenHash # hash) - 1
    ELSE 0 - 1

\* Array.prototype.splice(start, 1): a negative start counts from the end
SpliceOne(tokens, start) ==
    LET n == Len(tokens)
        st == IF start < 0
              THEN (IF n + start < 0 THEN 0 ELSE n + start)
              ELSE (IF start > n THEN n ELSE start)
    IN  IF st >= n
        THEN tokens
        ELSE [i \in 1..(n - 1) |-> IF i <= st THEN tokens[i] ELSE tokens[i + 1]]

\* Array.prototype.slice(-5)
SliceNone(tokens) == tokens

SliceFirst(tokens) ==
    IF Len(tokens) <= MAX_SESSIONS THEN tokens ELSE SubSeq(tokens, 1, MAX_SESSIONS)

SliceLast(tokens) ==
    IF Len(tokens) <= MAX_SESSIONS
    THEN tokens
    ELSE SubSeq(tokens, Len(tokens) - MAX_SESSIONS + 1, Len(tokens))

(***************************************************************************)
(* The User document.                                                      *)
(***************************************************************************)
\* User.create({ ..., password, role, hasSetPassword: true }): the schema
\* defaults and the pre-save hash
NewUser(email, role, password) ==
    [email |-> email, role |-> role, password |-> BcryptHash(password),
     isActive |-> TRUE, hasSetPassword |-> TRUE,
     inviteToken |-> NoInvite, inviteTokenExpires |-> NoDate,
     refreshTokens |-> <<>>, loginAttempts |-> 0, lockUntil |-> NoDate,
     lastLoginAt |-> NoDate]

\* User.create({ ..., role, inviteToken, inviteTokenExpires,
\* hasSetPassword: false }): no password yet
NewInvited(email, role, inviteTokenHash, inviteTokenExpires) ==
    [email |-> email, role |-> role, password |-> NoPassword,
     isActive |-> TRUE, hasSetPassword |-> FALSE,
     inviteToken |-> inviteTokenHash, inviteTokenExpires |-> inviteTokenExpires,
     refreshTokens |-> <<>>, loginAttempts |-> 0, lockUntil |-> NoDate,
     lastLoginAt |-> NoDate]

\* the fields with select: false, loaded only when the query names them
SelectFalse == {"password", "refreshTokens", "loginAttempts", "lockUntil",
                "inviteToken", "inviteTokenExpires"}

Unselected(doc, field) ==
    CASE field = "password" -> NoPassword
      [] field = "refreshTokens" -> <<>>
      [] field = "loginAttempts" -> 0
      [] field = "lockUntil" -> NoDate
      [] field = "inviteToken" -> NoInvite
      [] field = "inviteTokenExpires" -> NoDate
      [] OTHER -> doc[field]

\* Query.select('+a +b'): default fields plus the named ones
Select(id, plus) ==
    [f \in DOMAIN users[id] |->
        IF f \in SelectFalse \ plus THEN Unselected(users[id], f) ELSE users[id][f]]

NoDoc == [email |-> "none", role |-> "none", password |-> NoPassword,
          isActive |-> FALSE, hasSetPassword |-> FALSE,
          inviteToken |-> NoInvite, inviteTokenExpires |-> NoDate,
          refreshTokens |-> <<>>, loginAttempts |-> 0, lockUntil |-> NoDate,
          lastLoginAt |-> NoDate]

\* User.findOne({ email })
FindByEmailNone(email) == {}

FindByEmail(email) == {id \in DOMAIN users : users[id].email = email}

\* if (!user.isActive)
isDeactivatedNever(doc) == FALSE

isDeactivated(doc) == ~doc.isActive

\* the isLocked virtual
isLockedReversed(doc, t) == doc.lockUntil # NoDate /\ doc.lockUntil < t

isLockedForever(doc, t) == doc.lockUntil # NoDate

isLocked(doc, t) == doc.lockUntil # NoDate /\ doc.lockUntil > t

comparePasswordAny(doc, candidate) == TRUE

comparePassword(doc, candidate) ==
    IF doc.password = NoPassword THEN FALSE ELSE BcryptCompare(candidate, doc.password)

\* incrementLoginAttempts: the update it sends, decided on the snapshot,
\* applied to the stored document ($inc reads the stored counter)
incrementNoExpiry(doc, stored, t) ==
    IF (doc.loginAttempts + 1 >= MAX_LOGIN_ATTEMPTS) /\ ~isLocked(doc, t)
    THEN [stored EXCEPT !.loginAttempts = @ + 1, !.lockUntil = t + LOCK_DURATION_MS]
    ELSE [stored EXCEPT !.loginAttempts = @ + 1]

incrementLateLock(doc, stored, t) ==
    IF doc.lockUntil # NoDate /\ doc.lockUntil < t
    THEN [stored EXCEPT !.loginAttempts = 1, !.lockUntil = NoDate]
    ELSE IF (doc.loginAttempts + 1 > MAX_LOGIN_ATTEMPTS) /\ ~isLocked(doc, t)
         THEN [stored EXCEPT !.loginAttempts = @ + 1,
                             !.lockUntil = t + LOCK_DURATION_MS]
         ELSE [stored EXCEPT !.loginAttempts = @ + 1]

incrementLoginAttempts(doc, stored, t) ==
    IF doc.lockUntil # NoDate /\ doc.lockUntil < t
    THEN [stored EXCEPT !.loginAttempts = 1, !.lockUntil = NoDate]
    ELSE IF (doc.loginAttempts + 1 >= MAX_LOGIN_ATTEMPTS) /\ ~isLocked(doc, t)
         THEN [stored EXCEPT !.loginAttempts = @ + 1,
                             !.lockUntil = t + LOCK_DURATION_MS]
         ELSE [stored EXCEPT !.loginAttempts = @ + 1]

resetKeepsAttempts(stored, t) ==
    [stored EXCEPT !.lastLoginAt = t, !.lockUntil = NoDate]

resetLoginAttempts(stored, t) ==
    [stored EXCEPT !.loginAttempts = 0, !.lastLoginAt = t, !.lockUntil = NoDate]

(***************************************************************************)
(* Requests.                                                               *)
(***************************************************************************)
NoRes == [status |-> 0, msg |-> "", n |-> 0, tok |-> NoToken, inv |-> NoRaw]

Ok(tok) == [status |-> 200, msg |-> "ok", n |-> 0, tok |-> tok, inv |-> NoRaw]

\* createUser's payload: the raw invite token and its expiry
OkInvite(raw, expiresAt) ==
    [status |-> 200, msg |-> "ok", n |-> expiresAt, tok |-> NoToken, inv |-> raw]

Err(status, msg) ==
    [status |-> status, msg |-> msg, n |-> 0, tok |-> NoToken, inv |-> NoRaw]

ErrN(status, msg, n) ==
    [status |-> status, msg |-> msg, n |-> n, tok |-> NoToken, inv |-> NoRaw]

IdleReq ==
    [pc |-> "idle", op |-> "none", uid |-> "none", email |-> "none",
     pw |-> "none", npw |-> "none", tok |-> NoToken, inv |-> NoRaw,
     secret |-> "none", role |-> "none", doc |-> NoDoc,
     t0 |-> NoDate, ovl |-> FALSE, seen |-> FALSE, old |-> FALSE, streak |-> 0,
     had |-> FALSE, taken |-> FALSE, evicted |-> FALSE, gone |-> FALSE,
     res |-> NoRes]

Free(p) == req[p].pc \in {"idle", "done"}

InFlight(p) == ~Free(p)

\* a request that starts while another is in flight overlaps it
Overlap(p) == \E q \in Slots \ {p} : InFlight(q)

MarkOverlap(p, r) ==
    [q \in Slots |->
        IF q = p THEN r
        ELSE IF InFlight(q) THEN [req[q] EXCEPT !.ovl = TRUE]
        ELSE req[q]]

Finish(p, res) == req' = [req EXCEPT ![p].pc = "done", ![p].res = res]

HistoryUnchanged ==
    UNCHANGED <<rotated, rotatedAgain, stale, failStreak, forgiven, loginLog,
                credential, invited, redeemed, revoked>>

(***************************************************************************)
(* login                                                                   *)
(***************************************************************************)
\* findOne, then the checks up to the password comparison
LoginFind(p, email, password) ==
    /\ Free(p)
    /\ nreq' = nreq + 1
    /\ LET found == FindByEmail(email)
           base == [IdleReq EXCEPT !.op = "login", !.email = email,
                                   !.pw = password, !.t0 = now,
                                   !.ovl = Overlap(p)]
       IN  IF found = {}
           THEN req' = MarkOverlap(p, [base EXCEPT !.pc = "done",
                          !.res = Err(401, "Invalid email or password.")])
           ELSE LET id == CHOOSE id \in found : TRUE
                    doc == Select(id, {"password", "loginAttempts", "lockUntil",
                                       "refreshTokens"})
                    r == [base EXCEPT !.uid = id, !.doc = doc,
                                      !.streak = failStreak[id]]
                IN  req' = MarkOverlap(p,
                       IF isDeactivated(doc)
                       THEN [r EXCEPT !.pc = "done",
                                !.res = Err(403, "Your account has been deactivated.")]
                       ELSE IF ~doc.hasSetPassword
                       THEN [r EXCEPT !.pc = "done",
                                !.res = Err(403, "Please set your password.")]
                       ELSE IF isLocked(doc, now)
                       THEN [r EXCEPT !.pc = "done",
                                !.res = ErrN(423, "Account temporarily locked.",
                                             doc.lockUntil - now)]
                       ELSE [r EXCEPT !.pc = "login_compare"])
    /\ UNCHANGED <<now, config, users, issued>>
    /\ HistoryUnchanged

\* password mismatch: incrementLoginAttempts, then the 401
LoginFail(p) ==
    /\ req[p].pc = "login_compare"
    /\ ~comparePassword(req[p].doc, req[p].pw)
    /\ LET id == req[p].uid
           doc == req[p].doc
           attemptsLeft == IF MAX_LOGIN_ATTEMPTS - (doc.loginAttempts + 1) > 0
                           THEN MAX_LOGIN_ATTEMPTS - (doc.loginAttempts + 1)
                           ELSE 0
       IN  /\ users' = [users EXCEPT ![id] = incrementLoginAttempts(doc, @, now)]
           /\ Finish(p, IF attemptsLeft > 0
                        THEN ErrN(401, "Invalid email or password. Attempts remaining.",
                                  attemptsLeft)
                        ELSE ErrN(401, "Invalid email or password. Account locked.", 0))
           /\ failStreak' = [failStreak EXCEPT ![id] = @ + 1]
    /\ UNCHANGED <<now, config, issued, nreq, rotated, rotatedAgain, stale,
                   forgiven, loginLog, credential, invited, redeemed,
                   revoked>>

\* password match: resetLoginAttempts
LoginReset(p) ==
    /\ req[p].pc = "login_compare"
    /\ comparePassword(req[p].doc, req[p].pw)
    /\ users' = [users EXCEPT ![req[p].uid] = resetLoginAttempts(@, now)]
    /\ req' = [req EXCEPT ![p].pc = "login_store"]
    /\ failStreak' = [failStreak EXCEPT ![req[p].uid] = 0]
    /\ forgiven' = [forgiven EXCEPT ![req[p].uid] = failStreak[req[p].uid]]
    /\ UNCHANGED <<now, config, issued, nreq, rotated, rotatedAgain, stale,
                   loginLog, credential, invited, redeemed,
                   revoked>>

\* sign the tokens, register the session: prune, push, slice(-5), updateOne
LoginStore(p) ==
    /\ req[p].pc = "login_store"
    /\ LET id == req[p].uid
           refreshToken == signRefreshToken(id, now)
           entry == [tokenHash |-> hashRefreshToken(refreshToken),
                     expiresAt |-> now + SESSION_TTL_MS]
           cleanTokens == Append(pruneExpiredTokens(req[p].doc.refreshTokens, now), entry)
       IN  /\ users' = [users EXCEPT ![id].refreshTokens = SliceLast(cleanTokens)]
           /\ Finish(p, Ok(refreshToken))
           /\ issued' = issued \cup {refreshToken}
           /\ loginLog' = [loginLog EXCEPT ![id] =
                              Append(@, [tok |-> refreshToken, at |-> now])]
    /\ UNCHANGED <<now, config, nreq, rotated, rotatedAgain, stale, failStreak,
                   forgiven, credential, invited, redeemed,
                   revoked>>

(***************************************************************************)
(* refreshAccessToken                                                      *)
(***************************************************************************)
\* the token was returned by a login of user id, MAX_SESSIONS or more
\* logins of that user have registered other tokens since, and neither a
\* rotation nor a password change has retired it: slice(-5) dropped its entry
CapEvicted(id, token) ==
    /\ token \notin rotated \cup stale \cup revoked
    /\ \E i \in 1..Len(loginLog[id]) :
           /\ loginLog[id][i].tok = token
           /\ Len(loginLog[id]) - i >= MAX_SESSIONS
           /\ \A j \in (i + 1)..Len(loginLog[id]) : loginLog[id][j].tok # token

\* the guard, jwt.verify, findById, the isActive check and the lookup of
\* the presented token's hash in the loaded session list
RefreshFind(p, token) ==
    /\ Free(p)
    /\ nreq' = nreq + 1
    /\ LET base == [IdleReq EXCEPT !.op = "refresh", !.tok = token, !.t0 = now,
                                   !.ovl = Overlap(p),
                                   !.seen = (token \in rotated),
                                   !.old = (token \in stale),
                                   !.gone = (token \in revoked),
                                   !.evicted =
                                       /\ token # NoToken
                                       /\ token.userId \in DOMAIN users
                                       /\ CapEvicted(token.userId, token)]
       IN  req' = MarkOverlap(p,
              IF token = NoToken
              THEN [base EXCEPT !.pc = "done",
                       !.res = Err(401, "Refresh token is required.")]
              ELSE IF ~verifyRefreshToken(token, now)
              THEN [base EXCEPT !.pc = "done",
                       !.res = Err(401, "Invalid or expired refresh token.")]
              ELSE IF token.userId \notin DOMAIN users
              THEN [base EXCEPT !.pc = "done",
                       !.res = Err(401, "User no longer exists.")]
              ELSE LET doc == Select(token.userId, {"refreshTokens"})
                       r == [base EXCEPT !.uid = token.userId, !.doc = doc]
                   IN  IF isDeactivated(doc)
                       THEN [r EXCEPT !.pc = "done",
                                !.res = Err(403, "Account is deactivated.")]
                       ELSE IF FindIndex(doc.refreshTokens,
                                         hashRefreshToken(token)) = 0 - 1
                       THEN [r EXCEPT !.pc = "refresh_revoke"]
                       ELSE [r EXCEPT !.pc = "refresh_rotate"])
    /\ UNCHANGED <<now, config, users, issued>>
    /\ HistoryUnchanged

\* reuse: clear every session of the user, then fail
RevokeKeeps(sessions) == sessions

RevokeAll(sessions) == <<>>

RefreshRevoke(p) ==
    /\ req[p].pc = "refresh_revoke"
    /\ users' = [users EXCEPT ![req[p].uid].refreshTokens = RevokeAll(@)]
    /\ Finish(p, Err(401, "Session invalid. Please log in again."))
    /\ revoked' = IF req[p].evicted
                  THEN revoked \cup
                       {t \in issued :
                           /\ t.userId = req[p].uid
                           /\ FindIndex(users[req[p].uid].refreshTokens,
                                        hashRefreshToken(t)) # 0 - 1}
                  ELSE revoked
    /\ UNCHANGED <<now, config, issued, nreq, rotated, rotatedAgain, stale,
                   failStreak, forgiven, loginLog, credential, invited,
                   redeemed>>

\* rotate: sign the new token, prune, splice the old entry out, push, slice(-5)
RotateTokens(tokens, incomingHash, entry, t) ==
    LET pruned == pruneExpiredTokens(tokens, t)
        spliced == SpliceOne(pruned, FindIndex(pruned, incomingHash))
    IN  SliceLast(Append(spliced, entry))

RefreshRotate(p) ==
    /\ req[p].pc = "refresh_rotate"
    /\ LET id == req[p].uid
           newRefreshToken == signRefreshToken(id, now)
           entry == [tokenHash |-> hashRefreshToken(newRefreshToken),
                     expiresAt |-> now + SESSION_TTL_MS]
       IN  /\ users' = [users EXCEPT ![id].refreshTokens =
                           RotateTokens(req[p].doc.refreshTokens,
                                        hashRefreshToken(req[p].tok), entry, now)]
           /\ Finish(p, Ok(newRefreshToken))
           /\ issued' = issued \cup {newRefreshToken}
    /\ rotated' = rotated \cup {req[p].tok}
    /\ rotatedAgain' = IF req[p].tok \in rotated
                       THEN rotatedAgain \cup {req[p].tok}
                       ELSE rotatedAgain
    /\ UNCHANGED <<now, config, nreq, stale, failStreak, forgiven, loginLog,
                   credential, invited, redeemed,
                   revoked>>

(***************************************************************************)
(* logout                                                                  *)
(***************************************************************************)
\* $pull: every entry with the token's hash leaves the list
PullAll(tokens, tokenHash) == <<>>

Pull(tokens, tokenHash) ==
    SelectSeq(tokens, LAMBDA e : e.tokenHash # tokenHash)

\* the guard, then updateOne with $pull
Logout(p, userId, token) ==
    /\ Free(p)
    /\ nreq' = nreq + 1
    /\ req' = MarkOverlap(p, [IdleReq EXCEPT !.pc = "done", !.op = "logout",
                                 !.uid = userId, !.tok = token, !.t0 = now,
                                 !.ovl = Overlap(p), !.res = Ok(NoToken)])
    /\ users' = IF token = NoToken \/ userId \notin DOMAIN users
                THEN users
                ELSE [users EXCEPT ![userId].refreshTokens =
                         Pull(@, hashRefreshToken(token))]
    /\ UNCHANGED <<now, config, issued>>
    /\ HistoryUnchanged

(***************************************************************************)
(* changePassword                                                          *)
(***************************************************************************)
\* findById with the password, then comparePassword
ChangeFind(p, userId, currentPassword, newPassword) ==
    /\ Free(p)
    /\ nreq' = nreq + 1
    /\ LET base == [IdleReq EXCEPT !.op = "changePassword", !.uid = userId,
                                   !.pw = currentPassword, !.npw = newPassword,
                                   !.t0 = now, !.ovl = Overlap(p)]
       IN  req' = MarkOverlap(p,
              IF userId \notin DOMAIN users
              THEN [base EXCEPT !.pc = "done", !.res = Err(404, "User not found.")]
              ELSE LET doc == Select(userId, {"password"})
                   IN  IF ~comparePassword(doc, currentPassword)
                       THEN [base EXCEPT !.pc = "done", !.doc = doc,
                                !.res = Err(401, "Current password is incorrect.")]
                       ELSE [base EXCEPT !.pc = "change_save", !.doc = doc])
    /\ UNCHANGED <<now, config, users, issued>>
    /\ HistoryUnchanged

\* save(): the modified paths, password (hashed by the pre-save hook) and
\* refreshTokens, are $set on the stored document
SavePassword(stored, plain) ==
    [stored EXCEPT !.password = BcryptHash(plain), !.refreshTokens = <<>>]

ChangeSave(p) ==
    /\ req[p].pc = "change_save"
    /\ users' = [users EXCEPT ![req[p].uid] = SavePassword(@, req[p].npw)]
    /\ Finish(p, Ok(NoToken))
    /\ stale' = stale \cup {t \in issued : t.userId = req[p].uid}
    /\ credential' = [credential EXCEPT ![req[p].uid] = req[p].npw]
    /\ UNCHANGED <<now, config, issued, nreq, rotated, rotatedAgain, failStreak,
                   forgiven, loginLog, invited, redeemed,
                   revoked>>

(***************************************************************************)
(* registerAdmin                                                           *)
(***************************************************************************)
\* the store holds an admin, as an observer sees it
AdminExists == \E id \in DOMAIN users : users[id].role = "admin"

\* an observer sees the email in the store
EmailExists(email) == \E id \in DOMAIN users : users[id].email = email

\* User.findOne({ role: 'admin' })
FindAdminsNone == {}

FindAdmins == {id \in DOMAIN users : users[id].role = "admin"}

\* User.create: the unique index on email rejects a second document
Insert(doc) ==
    [id \in DOMAIN users \cup {doc.email} |->
        IF id = doc.email THEN doc ELSE users[id]]

\* the bootstrap secret, then findOne({ role: 'admin' })
RegisterFind(p, email, password, bootstrapSecret) ==
    /\ Free(p)
    /\ nreq' = nreq + 1
    /\ LET base == [IdleReq EXCEPT !.op = "registerAdmin", !.email = email,
                                   !.pw = password, !.secret = bootstrapSecret,
                                   !.t0 = now, !.ovl = Overlap(p),
                                   !.had = AdminExists,
                                   !.taken = EmailExists(email)]
       IN  req' = MarkOverlap(p,
              IF bootstrapSecret # config.bootstrapSecret
              THEN [base EXCEPT !.pc = "done",
                       !.res = Err(403, "Invalid admin bootstrap secret.")]
              ELSE IF FindAdmins # {}
              THEN [base EXCEPT !.pc = "done",
                       !.res = Err(409, "An admin account already exists.")]
              ELSE [base EXCEPT !.pc = "register_email"])
    /\ UNCHANGED <<now, config, users, issued>>
    /\ HistoryUnchanged

\* findOne({ email })
RegisterEmail(p) ==
    /\ req[p].pc = "register_email"
    /\ req' = [req EXCEPT ![p] =
                 IF FindByEmail(req[p].email) # {}
                 THEN [@ EXCEPT !.pc = "done",
                          !.res = Err(409, "An account with this email already exists.")]
                 ELSE [@ EXCEPT !.pc = "register_create"]]
    /\ UNCHANGED <<now, config, users, issued, nreq>>
    /\ HistoryUnchanged

\* User.create({ ..., role: 'admin', hasSetPassword: true })
RegisterCreate(p) ==
    /\ req[p].pc = "register_create"
    /\ IF FindByEmail(req[p].email) # {}
       THEN /\ Finish(p, Err(409, "A record with this email already exists."))
            /\ UNCHANGED <<users, credential>>
       ELSE /\ users' = Insert(NewUser(req[p].email, "admin", req[p].pw))
            /\ req' = [req EXCEPT ![p].pc = "done", ![p].uid = req[p].email,
                                  ![p].res = Ok(NoToken)]
            /\ credential' = [credential EXCEPT ![req[p].email] = req[p].pw]
    /\ UNCHANGED <<now, config, issued, nreq, rotated, rotatedAgain, stale,
                   failStreak, forgiven, loginLog, invited, redeemed,
                   revoked>>

(***************************************************************************)
(* createUser                                                              *)
(***************************************************************************)
\* findOne({ email }); inv holds the bytes randomBytes is about to return
CreateFind(p, email, role) ==
    /\ Free(p)
    /\ nreq' = nreq + 1
    /\ LET base == [IdleReq EXCEPT !.op = "createUser", !.email = email,
                                   !.role = role, !.t0 = now,
                                   !.ovl = Overlap(p),
                                   !.taken = EmailExists(email)]
       IN  req' = MarkOverlap(p,
              IF FindByEmail(email) # {}
              THEN [base EXCEPT !.pc = "done",
                       !.res = Err(409, "A user with this email already exists.")]
              ELSE [base EXCEPT !.pc = "create_store", !.inv = nreq + 1])
    /\ UNCHANGED <<now, config, users, issued>>
    /\ HistoryUnchanged

\* generateSecureToken, the expiry, User.create with the hash of the token
CreateStore(p) ==
    /\ req[p].pc = "create_store"
    /\ LET token == generateSecureToken(req[p].inv)
           inviteTokenExpires == now + config.inviteTokenExpires
       IN  IF FindByEmail(req[p].email) # {}
           THEN /\ Finish(p, Err(409, "A record with this email already exists."))
                /\ UNCHANGED <<users, invited>>
           ELSE /\ users' = Insert(NewInvited(req[p].email, req[p].role,
                                              token.hash, inviteTokenExpires))
                /\ req' = [req EXCEPT ![p].pc = "done", ![p].uid = req[p].email,
                              ![p].res = OkInvite(token.raw, inviteTokenExpires)]
                /\ invited' = invited \cup
                       {[raw |-> token.raw, uid |-> req[p].email,
                         expiresAt |-> inviteTokenExpires]}
    /\ UNCHANGED <<now, config, issued, nreq, rotated, rotatedAgain, stale,
                   failStreak, forgiven, loginLog, credential, redeemed,
                   revoked>>

(***************************************************************************)
(* setPassword                                                             *)
(***************************************************************************)
\* User.findOne({ inviteToken: tokenHash, inviteTokenExpires: { $gt: now } })
FindByInviteAnyAge(tokenHash, t) ==
    {id \in DOMAIN users : users[id].inviteToken = tokenHash}

FindByInvite(tokenHash, t) ==
    {id \in DOMAIN users :
        /\ users[id].inviteToken = tokenHash
        /\ users[id].inviteTokenExpires # NoDate
        /\ users[id].inviteTokenExpires > t}

SetPasswordFind(p, inviteToken, password) ==
    /\ Free(p)
    /\ nreq' = nreq + 1
    /\ LET found == FindByInvite(hashInviteToken(inviteToken), now)
           base == [IdleReq EXCEPT !.op = "setPassword", !.inv = inviteToken,
                                   !.npw = password, !.t0 = now,
                                   !.ovl = Overlap(p),
                                   !.seen = (inviteToken \in redeemed)]
       IN  req' = MarkOverlap(p,
              IF found = {}
              THEN [base EXCEPT !.pc = "done",
                       !.res = Err(400, "Invalid or expired invite token.")]
              ELSE LET id == CHOOSE id \in found : TRUE
                   IN  [base EXCEPT !.pc = "set_save", !.uid = id,
                           !.doc = Select(id, {"inviteToken", "inviteTokenExpires"})])
    /\ UNCHANGED <<now, config, users, issued>>
    /\ HistoryUnchanged

\* save(): password (hashed by the pre-save hook) and hasSetPassword are
\* $set, the two invite fields $unset, on the stored document
SaveKeepsInvite(stored, password) ==
    [stored EXCEPT !.password = BcryptHash(password), !.hasSetPassword = TRUE]

SaveKeepsExpiry(stored, password) ==
    [stored EXCEPT !.password = BcryptHash(password), !.hasSetPassword = TRUE,
                   !.inviteToken = NoInvite]

SaveInvite(stored, password) ==
    [stored EXCEPT !.password = BcryptHash(password), !.hasSetPassword = TRUE,
                   !.inviteToken = NoInvite, !.inviteTokenExpires = NoDate]

SetPasswordSave(p) ==
    /\ req[p].pc = "set_save"
    /\ users' = [users EXCEPT ![req[p].uid] = SaveInvite(@, req[p].npw)]
    /\ Finish(p, Ok(NoToken))
    /\ credential' = [credential EXCEPT ![req[p].uid] = req[p].npw]
    /\ redeemed' = redeemed \cup {req[p].inv}
    /\ UNCHANGED <<now, config, issued, nreq, rotated, rotatedAgain, stale,
                   failStreak, forgiven, loginLog, invited, revoked>>

(***************************************************************************)
(* Deactivation.                                                           *)
(***************************************************************************)
\* No handler of the service writes isActive: an administrator clears the
\* flag in the store, at any moment.
Deactivate(id) ==
    /\ id \in DOMAIN users
    /\ users[id].isActive
    /\ users' = [users EXCEPT ![id].isActive = FALSE]
    /\ UNCHANGED <<now, config, req, issued, nreq>>
    /\ HistoryUnchanged

(***************************************************************************)
(* The clock.                                                              *)
(***************************************************************************)
Tick(max) ==
    /\ now < max
    /\ now' = now + 1
    /\ UNCHANGED <<config, users, req, issued, nreq>>
    /\ HistoryUnchanged

(***************************************************************************)
(* Specifications.                                                         *)
(***************************************************************************)
DefaultConfig ==
    [refreshExpiresIn |-> SESSION_TTL_MS,
     bootstrapSecret |-> "bootstrapSecret",
     inviteTokenExpires |-> INVITE_TTL_MS]

\* The accounts in ids have been onboarded (password "pw1" set, active, no
\* failed attempts, no sessions); nothing is in flight.
InitWith(ids) ==
    /\ now = 0
    /\ config = DefaultConfig
    /\ users = [id \in ids |-> NewUser(id, "employee", "pw1")]
    /\ req = [p \in Slots |-> IdleReq]
    /\ issued = {}
    /\ nreq = 0
    /\ rotated = {}
    /\ rotatedAgain = {}
    /\ stale = {}
    /\ failStreak = [id \in Emails |-> 0]
    /\ forgiven = [id \in Emails |-> 0]
    /\ loginLog = [id \in Emails |-> <<>>]
    /\ credential = [id \in Emails |-> IF id \in ids THEN "pw1" ELSE "none"]
    /\ invited = {}
    /\ redeemed = {}
    /\ revoked = {}

\* Lockout: one account, one request at a time, right and wrong passwords.
InitLock == InitWith({"u1"})

NextLock ==
    \/ \E pw \in Passwords : nreq < MaxReqLock /\ LoginFind(1, "u1", pw)
    \/ LoginFail(1)
    \/ LoginReset(1)
    \/ LoginStore(1)
    \/ Tick(MaxTimeLock)

SpecLock == InitLock /\ [][NextLock]_vars

\* Sessions of two accounts, one request at a time.  The clients are the
\* account holders: they log in with the password the account has, and
\* present tokens they were given.
InitSeq == InitWith({"u1", "u2"})

NextSeq ==
    \/ \E e \in DOMAIN users, pw \in Passwords :
          /\ nreq < MaxReqSeq
          /\ comparePassword(users[e], pw)
          /\ LoginFind(1, e, pw)
    \/ \E t \in issued : nreq < MaxReqSeq /\ RefreshFind(1, t)
    \/ \E u \in DOMAIN users, t \in issued \cup {NoToken} :
          nreq < MaxReqSeq /\ Logout(1, u, t)
    \/ \E u \in DOMAIN users, cur \in Passwords, new \in Passwords :
          nreq < MaxReqSeq /\ ChangeFind(1, u, cur, new)
    \/ LoginReset(1)
    \/ LoginStore(1)
    \/ RefreshRevoke(1)
    \/ RefreshRotate(1)
    \/ ChangeSave(1)
    \/ Tick(MaxTimeSeq)

SpecSeq == InitSeq /\ [][NextSeq]_vars

\* Sessions of one account, two requests at a time.
Init == InitWith({"u1"})

Next ==
    \/ \E p \in Slots, e \in DOMAIN users, pw \in Passwords :
          nreq < MaxReq /\ LoginFind(p, e, pw)
    \/ \E p \in Slots, t \in issued : nreq < MaxReq /\ RefreshFind(p, t)
    \/ \E p \in Slots, u \in DOMAIN users, t \in issued \cup {NoToken} :
          nreq < MaxReq /\ Logout(p, u, t)
    \/ \E p \in Slots, u \in DOMAIN users, cur \in Passwords, new \in Passwords :
          nreq < MaxReq /\ ChangeFind(p, u, cur, new)
    \/ \E p \in Slots : LoginFail(p)
    \/ \E p \in Slots : LoginReset(p)
    \/ \E p \in Slots : LoginStore(p)
    \/ \E p \in Slots : RefreshRevoke(p)
    \/ \E p \in Slots : RefreshRotate(p)
    \/ \E p \in Slots : ChangeSave(p)
    \/ Tick(MaxTime)

Spec == Init /\ [][Next]_vars

\* Lockout of one account, two logins at a time; "u2" has no account.
InitFail == InitWith({"u1"})

NextFail ==
    \/ \E p \in Slots, e \in Emails, pw \in Passwords :
          nreq < MaxReqFail /\ LoginFind(p, e, pw)
    \/ \E p \in Slots : LoginFail(p)
    \/ \E p \in Slots : LoginReset(p)
    \/ \E p \in Slots : LoginStore(p)

SpecFail == InitFail /\ [][NextFail]_vars

\* The session cap: one account, two requests at a time, the holder logging
\* in on many devices and using the tokens, all within one clock second.
InitCap == InitWith({"u1"})

NextCap ==
    \/ \E p \in Slots : nreq < MaxReqCap /\ LoginFind(p, "u1", credential["u1"])
    \/ \E p \in Slots, t \in issued : nreq < MaxReqCap /\ RefreshFind(p, t)
    \/ \E p \in Slots, t \in issued : nreq < MaxReqCap /\ Logout(p, "u1", t)
    \/ \E p \in Slots :
          nreq < MaxReqCap /\ ChangeFind(p, "u1", credential["u1"], "pw2")
    \/ \E p \in Slots : LoginReset(p)
    \/ \E p \in Slots : LoginStore(p)
    \/ \E p \in Slots : RefreshRevoke(p)
    \/ \E p \in Slots : RefreshRotate(p)
    \/ \E p \in Slots : ChangeSave(p)

SpecCap == InitCap /\ [][NextCap]_vars

\* Onboarding from an empty store, one request at a time: the bootstrap,
\* then invites by the admin (the create-user route admits admins only),
\* redemptions, and logins with the password the account was given.
InitOnboard ==
    /\ now = 0
    /\ config = DefaultConfig
    /\ users = <<>>
    /\ req = [p \in Slots |-> IdleReq]
    /\ issued = {}
    /\ nreq = 0
    /\ rotated = {}
    /\ rotatedAgain = {}
    /\ stale = {}
    /\ failStreak = [id \in Emails |-> 0]
    /\ forgiven = [id \in Emails |-> 0]
    /\ loginLog = [id \in Emails |-> <<>>]
    /\ credential = [id \in Emails |-> "none"]
    /\ invited = {}
    /\ redeemed = {}
    /\ revoked = {}

InviteRaws == {i.raw : i \in invited}

NextOnboard ==
    \/ \E e \in Emails, pw \in Passwords, secret \in BootstrapSecrets :
          nreq < MaxReqOnb /\ RegisterFind(1, e, pw, secret)
    \/ \E e \in Emails :
          nreq < MaxReqOnb /\ AdminExists /\ CreateFind(1, e, "employee")
    \/ \E raw \in InviteRaws \cup {BogusRaw}, pw \in Passwords :
          nreq < MaxReqOnb /\ SetPasswordFind(1, raw, pw)
    \/ \E e \in Emails, pw \in Passwords :
          nreq < MaxReqOnb /\ pw = credential[e] /\ LoginFind(1, e, pw)
    \/ RegisterEmail(1)
    \/ RegisterCreate(1)
    \/ CreateStore(1)
    \/ SetPasswordSave(1)
    \/ LoginReset(1)
    \/ LoginStore(1)
    \/ Tick(MaxTimeOnb)

SpecOnboard == InitOnboard /\ [][NextOnboard]_vars

\* Invites, two requests at a time: the admin "u1" is registered and
\* invites "u2".
InitInvite ==
    /\ now = 0
    /\ config = DefaultConfig
    /\ users = [id \in {"u1"} |-> NewUser("u1", "admin", "pw1")]
    /\ req = [p \in Slots |-> IdleReq]
    /\ issued = {}
    /\ nreq = 0
    /\ rotated = {}
    /\ rotatedAgain = {}
    /\ stale = {}
    /\ failStreak = [id \in Emails |-> 0]
    /\ forgiven = [id \in Emails |-> 0]
    /\ loginLog = [id \in Emails |-> <<>>]
    /\ credential = [id \in Emails |-> IF id = "u1" THEN "pw1" ELSE "none"]
    /\ invited = {}
    /\ redeemed = {}
    /\ revoked = {}

NextInvite ==
    \/ \E p \in Slots, e \in Emails :
          nreq < MaxReqInv /\ CreateFind(p, e, "employee")
    \/ \E p \in Slots, raw \in InviteRaws, pw \in Passwords :
          nreq < MaxReqInv /\ SetPasswordFind(p, raw, pw)
    \/ \E p \in Slots : CreateStore(p)
    \/ \E p \in Slots : SetPasswordSave(p)

SpecInvite == InitInvite /\ [][NextInvite]_vars

\* The guards of login, refreshAccessToken and changePassword: one account,
\* one request at a time, callers that present right and wrong passwords,
\* tokens they were given, no token or forged ones, and user ids with and
\* without an account, while the account may be deactivated.
InitGuard == InitWith({"u1"})

Presentable == issued \cup {NoToken} \cup UNION {Forged(t) : t \in issued}

NextGuard ==
    \/ \E pw \in Passwords : nreq < MaxReqGuard /\ LoginFind(1, "u1", pw)
    \/ \E t \in Presentable : nreq < MaxReqGuard /\ RefreshFind(1, t)
    \/ \E u \in Emails, cur \in Passwords, new \in Passwords :
          nreq < MaxReqGuard /\ ChangeFind(1, u, cur, new)
    \/ LoginFail(1)
    \/ LoginReset(1)
    \/ LoginStore(1)
    \/ RefreshRevoke(1)
    \/ RefreshRotate(1)
    \/ ChangeSave(1)
    \/ Deactivate("u1")
    \/ Tick(MaxTimeGuard)

SpecGuard == InitGuard /\ [][NextGuard]_vars

\* Rotation under either refresh-token lifetime: JWT_REFRESH_EXPIRES_IN is
\* left at its default, the lifetime of a stored session entry, or set
\* longer.  One account, one request at a time, the holder logging in and
\* presenting tokens they were given.
InitLong ==
    /\ now = 0
    /\ config \in {[DefaultConfig EXCEPT !.refreshExpiresIn = ttl] :
                      ttl \in {SESSION_TTL_MS, SESSION_TTL_MS + 1}}
    /\ users = [id \in {"u1"} |-> NewUser(id, "employee", "pw1")]
    /\ req = [p \in Slots |-> IdleReq]
    /\ issued = {}
    /\ nreq = 0
    /\ rotated = {}
    /\ rotatedAgain = {}
    /\ stale = {}
    /\ failStreak = [id \in Emails |-> 0]
    /\ forgiven = [id \in Emails |-> 0]
    /\ loginLog = [id \in Emails |-> <<>>]
    /\ credential = [id \in Emails |-> IF id = "u1" THEN "pw1" ELSE "none"]
    /\ invited = {}
    /\ redeemed = {}
    /\ revoked = {}

NextLong ==
    \/ nreq < MaxReqLong /\ LoginFind(1, "u1", credential["u1"])
    \/ \E t \in issued : nreq < MaxReqLong /\ RefreshFind(1, t)
    \/ LoginReset(1)
    \/ LoginStore(1)
    \/ RefreshRevoke(1)
    \/ RefreshRotate(1)
    \/ Tick(MaxTimeLong)

SpecLong == InitLong /\ [][NextLong]_vars

\* More devices than sessions: one account, one request at a time, the
\* holder logging in again and again and presenting tokens they were given.
InitEvict == InitWith({"u1"})

NextEvict ==
    \/ nreq < MaxReqEvict /\ LoginFind(1, "u1", credential["u1"])
    \/ \E t \in issued : nreq < MaxReqEvict /\ RefreshFind(1, t)
    \/ LoginReset(1)
    \/ LoginStore(1)
    \/ RefreshRevoke(1)
    \/ RefreshRotate(1)
    \/ Tick(MaxTimeEvict)

SpecEvict == InitEvict /\ [][NextEvict]_vars

\* The bootstrap from an empty store, two registerAdmin calls at a time.
InitBoot == InitOnboard

NextBoot ==
    \/ \E p \in Slots, e \in Emails, pw \in Passwords,
          secret \in BootstrapSecrets :
          nreq < MaxReqBoot /\ RegisterFind(p, e, pw, secret)
    \/ \E p \in Slots : RegisterEmail(p)
    \/ \E p \in Slots : RegisterCreate(p)

SpecBoot == InitBoot /\ [][NextBoot]_vars

(***************************************************************************)
(* Outcomes, as the caller sees them.                                      *)
(***************************************************************************)
Done(p, op) == req[p].pc = "done" /\ req[p].op = op

Succeeded(p) == req[p].res.status = 200

Locked(p) == req[p].res.status = 423

SessionInvalid(p) ==
    /\ req[p].res.status = 401
    /\ req[p].res.msg = "Session invalid. Please log in again."

\* a login that reached an existing, active account with a password set
LoginReached(p) ==
    /\ Done(p, "login")
    /\ req[p].uid # "none"
    /\ req[p].doc.isActive
    /\ req[p].doc.hasSetPassword

(***************************************************************************)
(* Rotation, one request at a time (SpecSeq).                              *)
(***************************************************************************)
\* a refresh whose token passed jwt.verify and named an existing, active user
RefreshReached(p) ==
    /\ Done(p, "refresh")
    /\ req[p].uid # "none"
    /\ req[p].doc.isActive

\* C1: once a rotation has accepted R1, a later refreshAccessToken(R1) with
\* R1 still unexpired fails with SessionInvalid and leaves the user's
\* session list empty; and no rotation succeeds on an empty list, so the
\* token the first rotation returned fails afterwards as well.
C1_RotationInvariant ==
    \A p \in Slots :
        /\ (RefreshReached(p) /\ req[p].seen) =>
              /\ SessionInvalid(p)
              /\ users[req[p].uid].refreshTokens = <<>>
        /\ (RefreshReached(p) /\ req[p].doc.refreshTokens = <<>>) => ~Succeeded(p)

\* C2: no refresh token is accepted by a rotation more than once.
C2_AtMostOncePerToken == rotatedAgain = {}

\* C3: a validly signed, unexpired token of an existing, active user whose
\* hash is not in the loaded session list sends the request to the revoking
\* branch; that branch empties the user's session list in the step that
\* returns SessionInvalid, and leaves every other user's document alone.
C3_StartsRevoke ==
    \A p \in Slots :
        (/\ Free(p)
         /\ req'[p].op = "refresh"
         /\ req'[p] # req[p]
         /\ verifyRefreshToken(req'[p].tok, now)
         /\ req'[p].tok.userId \in DOMAIN users
         /\ users[req'[p].tok.userId].isActive
         /\ \A i \in 1..Len(users[req'[p].tok.userId].refreshTokens) :
               users[req'[p].tok.userId].refreshTokens[i].tokenHash
                   # hashRefreshToken(req'[p].tok))
        => req'[p].pc = "refresh_revoke"

C3_RevokeStep ==
    \A p \in Slots :
        (req[p].pc = "refresh_revoke" /\ req'[p] # req[p]) =>
            /\ req'[p].pc = "done"
            /\ req'[p].res.status = 401
            /\ req'[p].res.msg = "Session invalid. Please log in again."
            /\ users'[req[p].uid].refreshTokens = <<>>
            /\ \A v \in DOMAIN users \ {req[p].uid} : users'[v] = users[v]
            /\ DOMAIN users' = DOMAIN users

C3_ReuseRevokesAll ==
    /\ [][C3_StartsRevoke]_vars
    /\ [][C3_RevokeStep]_vars
    /\ [](\A p \in Slots : (Done(p, "refresh") /\ SessionInvalid(p)) =>
              users[req[p].uid].refreshTokens = <<>>)

C3_Witness ==
    \E p \in Slots :
        /\ RefreshReached(p)
        /\ SessionInvalid(p)
        /\ req[p].doc.refreshTokens # <<>>
        /\ users[req[p].uid].refreshTokens = <<>>

\* C5: after a successful changePassword the user's session list is empty,
\* and no refresh token issued to the user before the change is accepted by
\* a later rotation.
C5_ChangePasswordInvalidates ==
    \A p \in Slots :
        /\ (Done(p, "changePassword") /\ Succeeded(p)) =>
              users[req[p].uid].refreshTokens = <<>>
        /\ (Done(p, "refresh") /\ req[p].old) => ~Succeeded(p)

(***************************************************************************)
(* Rotation, two requests at a time (Spec).                                *)
(***************************************************************************)
\* two requests that were in flight at the same time
Concurrent(p, q) == p # q /\ req[p].ovl /\ req[q].ovl

\* C4: of two concurrent refreshAccessToken calls that present the same
\* token, at most one succeeds.  (The token was signed before either call
\* began, so neither call can sign it anew.)
C4_ConcurrentRotationOnce ==
    \A p \in Slots, q \in Slots :
        (/\ Concurrent(p, q)
         /\ Done(p, "refresh") /\ Done(q, "refresh")
         /\ req[p].tok = req[q].tok
         /\ req[p].tok.iat < req[p].t0 /\ req[q].tok.iat < req[q].t0)
        => ~(Succeeded(p) /\ Succeeded(q))

\* C6: once a successful changePassword and a concurrent refreshAccessToken
\* of the same user have both completed, the user's session list is empty.
C6_ChangePasswordBeatsRefresh ==
    \A p \in Slots, q \in Slots :
        (/\ Concurrent(p, q)
         /\ Done(p, "changePassword") /\ Succeeded(p)
         /\ Done(q, "refresh") /\ req[q].uid = req[p].uid)
        => users[req[p].uid].refreshTokens = <<>>

(***************************************************************************)
(* Lockout (SpecLock).                                                     *)
(***************************************************************************)
\* C7: after exactly 5 consecutive failed logins from loginAttempts = 0 and
\* no lock, the account carries a lock that ends LOCK_DURATION_MS after the
\* fifth failure, and the next login before that instant is rejected with
\* Locked, whatever the password, and returns no token.
C7_LockedAfterFiveFailures ==
    /\ \A id \in DOMAIN users :
          failStreak[id] = MAX_LOGIN_ATTEMPTS =>
              /\ users[id].lockUntil # NoDate
              /\ users[id].loginAttempts = MAX_LOGIN_ATTEMPTS
    /\ \A p \in Slots :
          (LoginReached(p) /\ req[p].streak = MAX_LOGIN_ATTEMPTS - 1
               /\ failStreak[req[p].uid] = MAX_LOGIN_ATTEMPTS) =>
              /\ req[p].t0 + LOCK_DURATION_MS <= users[req[p].uid].lockUntil
              /\ users[req[p].uid].lockUntil <= now + LOCK_DURATION_MS
    /\ \A p \in Slots :
          (LoginReached(p) /\ req[p].streak = MAX_LOGIN_ATTEMPTS
               /\ req[p].t0 < req[p].doc.lockUntil) =>
              /\ Locked(p)
              /\ req[p].res.tok = NoToken
              /\ users[req[p].uid].refreshTokens = req[p].doc.refreshTokens

C7_Witness ==
    \E p \in Slots :
        /\ LoginReached(p)
        /\ req[p].streak = MAX_LOGIN_ATTEMPTS
        /\ req[p].t0 < req[p].doc.lockUntil
        /\ comparePassword(users[req[p].uid], req[p].pw)
        /\ Locked(p)

\* C8: a login made while the account is locked (lockUntil set, now <=
\* lockUntil) leaves loginAttempts and lockUntil as they were.
C8_LockedLoginChangesNothing ==
    \A p \in Slots :
        (LoginReached(p) /\ req[p].doc.lockUntil # NoDate
             /\ req[p].t0 <= req[p].doc.lockUntil) =>
            /\ users[req[p].uid].loginAttempts = req[p].doc.loginAttempts
            /\ users[req[p].uid].lockUntil = req[p].doc.lockUntil

\* C9: a failed login made after the lock has elapsed (lockUntil set, now >
\* lockUntil) leaves loginAttempts = 1 and no lockUntil.
C9_ExpiredLockRestartsAtOne ==
    \A p \in Slots :
        (LoginReached(p) /\ req[p].doc.lockUntil # NoDate
             /\ req[p].t0 > req[p].doc.lockUntil
             /\ ~comparePassword(req[p].doc, req[p].pw)) =>
            /\ req[p].res.status = 401
            /\ users[req[p].uid].loginAttempts = 1
            /\ users[req[p].uid].lockUntil = NoDate

C9_Witness ==
    \E p \in Slots :
        /\ LoginReached(p)
        /\ req[p].doc.lockUntil # NoDate
        /\ req[p].t0 > req[p].doc.lockUntil
        /\ req[p].doc.loginAttempts = MAX_LOGIN_ATTEMPTS
        /\ req[p].res.status = 401
        /\ users[req[p].uid].loginAttempts = 1

\* C10: admission rejects with Locked exactly when lockUntil is set and
\* now <= lockUntil, the instant now = lockUntil included.
C10_AdmissionRejectsUpToLockUntil ==
    \A p \in Slots :
        LoginReached(p) =>
            (Locked(p) <=> (req[p].doc.lockUntil # NoDate
                              /\ req[p].t0 <= req[p].doc.lockUntil))

\* C11: in every reachable state a user is either locked (lockUntil set and
\* not yet passed) or has loginAttempts < MAX_LOGIN_ATTEMPTS.
C11_LockedOrBelowFive ==
    \A id \in DOMAIN users :
        \/ (users[id].lockUntil # NoDate /\ now <= users[id].lockUntil)
        \/ users[id].loginAttempts < MAX_LOGIN_ATTEMPTS

\* C11, amended: in every reachable state a user either carries a lockUntil,
\* which may have passed, or has loginAttempts < MAX_LOGIN_ATTEMPTS.
C11_LockSetOrBelowFive ==
    \A id \in DOMAIN users :
        \/ users[id].lockUntil # NoDate
        \/ users[id].loginAttempts < MAX_LOGIN_ATTEMPTS

C11_Witness ==
    \E id \in DOMAIN users :
        /\ users[id].loginAttempts >= MAX_LOGIN_ATTEMPTS
        /\ users[id].lockUntil # NoDate
        /\ users[id].lockUntil < now

\* C12: concurrent failed logins are never under-counted: a failed login
\* admitted on an account without a lock raises the stored loginAttempts by
\* exactly one, and once every login has completed no account has
\* loginAttempts >= MAX_LOGIN_ATTEMPTS without a lockUntil.
C12_FailureCountsOne ==
    \A p \in Slots :
        (/\ req[p].pc = "login_compare"
         /\ req'[p].pc = "done"
         /\ req[p].doc.lockUntil = NoDate)
        => users'[req[p].uid].loginAttempts = users[req[p].uid].loginAttempts + 1

C12_NoUnderCount ==
    /\ [][C12_FailureCountsOne]_vars
    /\ []((\A p \in Slots : Free(p)) =>
             \A id \in DOMAIN users :
                 ~(users[id].loginAttempts >= MAX_LOGIN_ATTEMPTS
                       /\ users[id].lockUntil = NoDate))

\* C13: a successful login leaves loginAttempts = 0, no lockUntil and
\* lastLoginAt stamped with the time of the login; a lock exists only after
\* MAX_LOGIN_ATTEMPTS consecutive failures since the last success, and the
\* counter never exceeds the failures since the last success.
C13_SuccessForgivesFailures ==
    /\ \A p \in Slots :
          (Done(p, "login") /\ Succeeded(p)) =>
              /\ users[req[p].uid].loginAttempts = 0
              /\ users[req[p].uid].lockUntil = NoDate
              /\ req[p].t0 <= users[req[p].uid].lastLoginAt
              /\ users[req[p].uid].lastLoginAt <= now
    /\ \A id \in DOMAIN users :
          /\ users[id].lockUntil # NoDate => failStreak[id] >= MAX_LOGIN_ATTEMPTS
          /\ users[id].loginAttempts <= failStreak[id]

\* 4 failures, one success, 4 failures: unlocked
C13_Witness ==
    \E id \in DOMAIN users :
        /\ forgiven[id] = MAX_LOGIN_ATTEMPTS - 1
        /\ failStreak[id] = MAX_LOGIN_ATTEMPTS - 1
        /\ users[id].lastLoginAt # NoDate
        /\ users[id].loginAttempts = MAX_LOGIN_ATTEMPTS - 1
        /\ users[id].lockUntil = NoDate

(***************************************************************************)
(* The session cap.                                                        *)
(***************************************************************************)
\* the entry login registers for the i-th successful login of a user
EntryOfLogin(id, i) ==
    [tokenHash |-> hashRefreshToken(loginLog[id][i].tok),
     expiresAt |-> loginLog[id][i].at + SESSION_TTL_MS]

\* C14: in every reachable state every user's session list holds at most
\* MAX_SESSIONS entries.
C14_AtMostFiveSessions ==
    \A id \in DOMAIN users : Len(users[id].refreshTokens) <= MAX_SESSIONS

\* a login found the list full and its own entry took the place of the oldest
C14_Witness ==
    \E p \in Slots :
        /\ Done(p, "login") /\ Succeeded(p)
        /\ Len(pruneExpiredTokens(req[p].doc.refreshTokens, req[p].t0)) = MAX_SESSIONS
        /\ Len(users[req[p].uid].refreshTokens) = MAX_SESSIONS

\* C15: after six sequential successful logins of one user, the first
\* session still unexpired at the sixth, the session list is exactly the
\* entries of logins 2..6 in that order.
C15_SixLoginsKeepLastFive ==
    \A id \in DOMAIN users :
        (/\ Len(loginLog[id]) = MAX_SESSIONS + 1
         /\ loginLog[id][1].at + SESSION_TTL_MS > loginLog[id][MAX_SESSIONS + 1].at)
        => users[id].refreshTokens =
               [i \in 1..MAX_SESSIONS |-> EntryOfLogin(id, i + 1)]

C15_Witness ==
    \E id \in DOMAIN users :
        /\ Len(loginLog[id]) = MAX_SESSIONS + 1
        /\ loginLog[id][1].at + SESSION_TTL_MS > loginLog[id][MAX_SESSIONS + 1].at
        /\ loginLog[id][1].tok # loginLog[id][MAX_SESSIONS + 1].tok
        /\ Len(users[id].refreshTokens) = MAX_SESSIONS
        /\ \A i \in 1..MAX_SESSIONS :
               users[id].refreshTokens[i] # EntryOfLogin(id, 1)

(***************************************************************************)
(* Onboarding (SpecOnboard, SpecInvite).                                   *)
(***************************************************************************)
Last(seq) == seq[Len(seq)]

\* C16: for a user created by registerAdmin, or by createUser followed by
\* setPassword, a login with the password the user was given, on an active
\* account without a running lock, succeeds, returns a refresh token, and
\* appends a session entry that stores the hash of the returned token and
\* not the token itself.
C16_LoginAfterOnboarding ==
    \A p \in Slots :
        (/\ LoginReached(p)
         /\ req[p].pw = credential[req[p].uid]
         /\ (req[p].doc.lockUntil = NoDate \/ req[p].doc.lockUntil < req[p].t0))
        => /\ Succeeded(p)
           /\ req[p].res.tok # NoToken
           /\ users[req[p].uid].refreshTokens # <<>>
           /\ Last(users[req[p].uid].refreshTokens).tokenHash
                  = hashRefreshToken(req[p].res.tok)
           /\ \A i \in 1..Len(users[req[p].uid].refreshTokens) :
                  users[req[p].uid].refreshTokens[i].tokenHash # req[p].res.tok

\* both kinds of user have logged in
C16_Witness ==
    /\ \E p \in Slots : LoginReached(p) /\ Succeeded(p)
    /\ \E a \in DOMAIN users : users[a].role = "admin" /\ loginLog[a] # <<>>
    /\ \E e \in DOMAIN users :
          /\ users[e].role = "employee"
          /\ loginLog[e] # <<>>
          /\ \E i \in invited : i.uid = e /\ i.raw \in redeemed

\* C17: an invite token issued by createUser and presented to setPassword
\* before its expiry succeeds on the first redemption (password set,
\* hasSetPassword true, both invite fields cleared); every later setPassword
\* with the same raw token fails with InviteInvalidOrExpired.
InviteInvalidOrExpired(p) ==
    req[p].res = Err(400, "Invalid or expired invite token.")

C17_InviteRedeemsOnce ==
    \A p \in Slots :
        Done(p, "setPassword") =>
            /\ req[p].seen => InviteInvalidOrExpired(p)
            /\ \A i \in invited :
                   (i.raw = req[p].inv /\ req[p].t0 < i.expiresAt /\ ~req[p].seen)
                   => /\ Succeeded(p)
                      /\ users[i.uid].password = BcryptHash(req[p].npw)
                      /\ users[i.uid].hasSetPassword
                      /\ users[i.uid].inviteToken = NoInvite
                      /\ users[i.uid].inviteTokenExpires = NoDate

\* the second redemption, still before the expiry, has failed
C17_Witness ==
    \E p \in Slots, i \in invited :
        /\ Done(p, "setPassword")
        /\ req[p].seen
        /\ i.raw = req[p].inv
        /\ req[p].t0 < i.expiresAt
        /\ InviteInvalidOrExpired(p)
        /\ users[i.uid].hasSetPassword

\* C18: of two concurrent setPassword calls that present the same valid
\* invite token at most one succeeds, and the other does not overwrite the
\* password.
C18_ConcurrentRedeemOnce ==
    \A p \in Slots, q \in Slots :
        (/\ Concurrent(p, q)
         /\ Done(p, "setPassword") /\ Done(q, "setPassword")
         /\ req[p].inv = req[q].inv)
        => /\ ~(Succeeded(p) /\ Succeeded(q))
           /\ (Succeeded(p) /\ ~Succeeded(q)) =>
                  /\ InviteInvalidOrExpired(q)
                  /\ users[req[p].uid].password = BcryptHash(req[p].npw)

\* C19: setPassword with a token that matches no user and setPassword with
\* a token whose expiry has passed end in the same InviteInvalidOrExpired
\* outcome, and the failing call changes no user record.
C19_FailingCallChangesNothing ==
    \A p \in Slots :
        (/\ req'[p] # req[p]
         /\ req'[p].op = "setPassword"
         /\ req'[p].pc = "done"
         /\ req'[p].res.status # 200)
        => users' = users

C19_SameInviteFailure ==
    /\ [][C19_FailingCallChangesNothing]_vars
    /\ [](\A p \in Slots :
             (/\ Done(p, "setPassword")
              /\ \/ \A i \in invited : i.raw # req[p].inv
                 \/ \E i \in invited :
                        i.raw = req[p].inv /\ req[p].t0 >= i.expiresAt)
             => InviteInvalidOrExpired(p))

\* an expired invite was presented and refused; the record still carries it
C19_Witness ==
    \E p \in Slots, i \in invited :
        /\ Done(p, "setPassword")
        /\ i.raw = req[p].inv
        /\ req[p].t0 >= i.expiresAt
        /\ InviteInvalidOrExpired(p)
        /\ users[i.uid].inviteToken = hashInviteToken(i.raw)
        /\ users[i.uid].inviteTokenExpires = i.expiresAt
        /\ users[i.uid].password = NoPassword

\* C20: registerAdmin fails Forbidden whenever the secret differs from the
\* configured one, fails Conflict when the secret matches but an admin
\* exists or the email is taken, creates no user when it fails, and creates
\* an admin when it succeeds; so it fails whenever an admin existed when it
\* was called.
C20_FailingCallCreatesNothing ==
    \A p \in Slots :
        (/\ req'[p] # req[p]
         /\ req'[p].op = "registerAdmin"
         /\ req'[p].pc = "done"
         /\ req'[p].res.status # 200)
        => users' = users

C20_BootstrapOnce ==
    /\ [][C20_FailingCallCreatesNothing]_vars
    /\ [](\A p \in Slots :
             Done(p, "registerAdmin") =>
                 /\ req[p].secret # config.bootstrapSecret
                        => req[p].res.status = 403
                 /\ (req[p].secret = config.bootstrapSecret
                         /\ (req[p].had \/ req[p].taken))
                        => req[p].res.status = 409
                 /\ Succeeded(p) =>
                        /\ req[p].uid \in DOMAIN users
                        /\ users[req[p].uid].role = "admin"
                        /\ users[req[p].uid].hasSetPassword
                        /\ users[req[p].uid].password = BcryptHash(req[p].pw)
                 /\ req[p].had => ~Succeeded(p))

\* a second call with the right secret and a free email met the admin
C20_Witness ==
    \E p \in Slots :
        /\ Done(p, "registerAdmin")
        /\ req[p].secret = config.bootstrapSecret
        /\ req[p].had
        /\ ~req[p].taken
        /\ req[p].res.status = 409
        /\ Cardinality({id \in DOMAIN users : users[id].role = "admin"}) = 1

(***************************************************************************)
(* The bootstrap, two requests at a time (SpecBoot).                       *)
(***************************************************************************)
\* C21: at most one user with role admin is ever created through
\* registerAdmin, also when two registerAdmin calls with the correct secret
\* and different emails run concurrently.
C21_OneAdminFromBootstrap ==
    Cardinality({id \in DOMAIN users : users[id].role = "admin"}) <= 1

(***************************************************************************)
(* Emails (SpecOnboard).                                                   *)
(***************************************************************************)
\* a registerAdmin or createUser call for an email that was in the store
\* when the call was made
TakenCall(r) ==
    /\ r.pc = "done"
    /\ r.op \in {"registerAdmin", "createUser"}
    /\ r.taken

\* C22 (as stated): no two users share an email; registerAdmin and
\* createUser called with an email that is already taken fail with Conflict.
C22_TakenEmailConflicts ==
    \A p \in Slots : TakenCall(req[p]) => req[p].res.status = 409

\* C22: no two users share an email; createUser, and registerAdmin called
\* with the configured bootstrap secret, fail with Conflict when the email
\* is already taken, and the call leaves the user store unchanged: no user
\* created, no invite issued.
C22_TakenCallChangesNothing ==
    \A p \in Slots :
        (req'[p] # req[p] /\ TakenCall(req'[p]))
        => /\ users' = users
           /\ invited' = invited

C22_EmailsUnique ==
    /\ [][C22_TakenCallChangesNothing]_vars
    /\ [](\A id1 \in DOMAIN users, id2 \in DOMAIN users :
             users[id1].email = users[id2].email => id1 = id2)
    /\ [](\A p \in Slots :
             (/\ TakenCall(req[p])
              /\ (req[p].op = "registerAdmin"
                     => req[p].secret = config.bootstrapSecret))
             => req[p].res.status = 409)

\* createUser for an invited user's email was refused; the one invite issued
\* for that email is the only one
C22_Witness ==
    \E p \in Slots :
        /\ TakenCall(req[p])
        /\ req[p].op = "createUser"
        /\ req[p].res.status = 409
        /\ req[p].email \in DOMAIN users
        /\ users[req[p].email].role = "employee"
        /\ Cardinality({i \in invited : i.uid = req[p].email}) = 1

(***************************************************************************)
(* What a failed login tells the caller (SpecFail).                        *)
(***************************************************************************)
\* a login for an email that has no user
UnknownEmail(p) == Done(p, "login") /\ req[p].uid = "none"

\* a login that reached the password comparison of an unlocked account and
\* failed it
WrongPassword(p) ==
    /\ LoginReached(p)
    /\ ~isLocked(req[p].doc, req[p].t0)
    /\ ~comparePassword(req[p].doc, req[p].pw)

\* C23: a failed login for an email that has no user and a failed login
\* with a wrong password for an existing, active, unlocked user with a set
\* password return the same failure kind and the same message.
C23_UniformLoginFailure ==
    \A p \in Slots, q \in Slots :
        (UnknownEmail(p) /\ WrongPassword(q))
        => /\ req[p].res.status = req[q].res.status
           /\ req[p].res.msg = req[q].res.msg
           /\ req[p].res.n = req[q].res.n

(***************************************************************************)
(* The message of a password mismatch (SpecLock).                          *)
(***************************************************************************)
\* the mismatch branch of login has just answered in slot p
MismatchAnswered(p) ==
    /\ req[p].pc = "login_compare"
    /\ req'[p].pc = "done"
    /\ req'[p].res.status = 401

LockedFraming(res) == res.msg = "Invalid email or password. Account locked."

\* C24: on a password mismatch the remaining-attempts count in the message
\* is 5 minus the loginAttempts stored by that failure (no count below 0 is
\* surfaced), and the "account locked" framing is used exactly when the
\* failure left the account locked, also after an expired lock.
C24_MessageStep ==
    \A p \in Slots :
        MismatchAnswered(p) =>
            LET stored == users'[req[p].uid]
                left == MAX_LOGIN_ATTEMPTS - stored.loginAttempts
            IN  /\ LockedFraming(req'[p].res) <=> isLocked(stored, now)
                /\ ~LockedFraming(req'[p].res) => req'[p].res.n = left

C24_MessageMatchesRecord == [][C24_MessageStep]_vars

(***************************************************************************)
(* The guards (SpecGuard).                                                 *)
(***************************************************************************)
\* this step is the call of op in slot p: its first block has run
Calls(p, op) ==
    /\ Free(p)
    /\ nreq' = nreq + 1
    /\ req'[p].op = op
    /\ req'[p].t0 = now
    /\ \A q \in Slots \ {p} : req'[q] = req[q] \/ InFlight(q)

Deactivated(id) == id \in DOMAIN users /\ ~users[id].isActive

Forbidden(r) == r.pc = "done" /\ r.res.status = 403 /\ r.res.tok = NoToken

\* C25 (as stated): for a user with isActive=false, login and
\* refreshAccessToken both fail with Forbidden; here refreshAccessToken is
\* given a token that was issued to that user.
C25_RefreshStep ==
    \A p \in Slots :
        (/\ Calls(p, "refresh")
         /\ req'[p].tok \in issued
         /\ Deactivated(req'[p].tok.userId))
        => Forbidden(req'[p])

C25_InactiveRefreshForbidden == [][C25_RefreshStep]_vars

\* C25: a user with isActive=false is never issued tokens: login, and
\* refreshAccessToken presented with a token that passes verification, both
\* fail with Forbidden for that user, return no token and leave the user's
\* loginAttempts, lockUntil and session list unchanged.
C25_InactiveStep ==
    \A p \in Slots :
        (\/ /\ Calls(p, "login")
            /\ Deactivated(req'[p].email)
         \/ /\ Calls(p, "refresh")
            /\ req'[p].tok # NoToken
            /\ req'[p].tok.sig = "refreshSecret"
            /\ req'[p].tok.iss = "teamhabour-api"
            /\ req'[p].tok.aud = "teamhabour-client"
            /\ now < req'[p].tok.exp
            /\ Deactivated(req'[p].tok.userId))
        => /\ Forbidden(req'[p])
           /\ users' = users
           /\ issued' = issued

C25_InactiveNeverIssued == [][C25_InactiveStep]_vars

\* a deactivated user's live session was presented and refused; the session
\* is still in the list
C25_Witness ==
    \E p \in Slots :
        /\ Done(p, "refresh")
        /\ req[p].res.status = 403
        /\ req[p].tok \in issued
        /\ Deactivated(req[p].uid)
        /\ FindIndex(users[req[p].uid].refreshTokens,
                     hashRefreshToken(req[p].tok)) # 0 - 1
        /\ \A q \in Slots : ~Succeeded(q)

\* the token is absent, or jwt.verify rejects it at time t
Unverifiable(token, t) ==
    \/ token = NoToken
    \/ token.sig # "refreshSecret"
    \/ token.iss # "teamhabour-api"
    \/ token.aud # "teamhabour-client"
    \/ t >= token.exp

\* C26: refreshAccessToken called with an absent token, or with a token
\* that fails signature, issuer, audience or expiry verification, fails
\* Unauthorized and modifies no user's session list; it does not trigger
\* reuse revocation.
C26_UnverifiableStep ==
    \A p \in Slots :
        (Calls(p, "refresh") /\ Unverifiable(req'[p].tok, now))
        => /\ req'[p].pc = "done"
           /\ req'[p].res.status = 401
           /\ req'[p].res.msg # "Session invalid. Please log in again."
           /\ req'[p].res.tok = NoToken
           /\ users' = users

C26_UnverifiableChangesNothing == [][C26_UnverifiableStep]_vars

\* an issued token was presented after its expiry and refused; its session
\* entry and another session of the user are still in the list
C26_Witness ==
    \E p \in Slots :
        /\ Done(p, "refresh")
        /\ req[p].tok \in issued
        /\ req[p].t0 >= req[p].tok.exp
        /\ req[p].res.status = 401
        /\ ~SessionInvalid(p)
        /\ LET sessions == users[req[p].tok.userId].refreshTokens
           IN  /\ FindIndex(sessions, hashRefreshToken(req[p].tok)) # 0 - 1
               /\ Len(sessions) >= 2

(***************************************************************************)
(* logout (SpecSeq).                                                       *)
(***************************************************************************)
\* the entries of tokens up to position i that carry tokenHash
Matching(tokens, tokenHash, i) ==
    {j \in 1..i : tokens[j].tokenHash = tokenHash}

\* C27: logout(userId, rawToken) removes from that user's session list only
\* the entries whose hash matches rawToken and leaves every other session
\* entry of that user, in place and in order, and every other user
\* unchanged; when rawToken is absent or matches no entry it changes
\* nothing; and it does not fail.
C27_LogoutStep ==
    \A p \in Slots :
        Calls(p, "logout") =>
            LET id == req'[p].uid
                token == req'[p].tok
                before == users[id].refreshTokens
                after == users'[id].refreshTokens
                tokenHash == hashRefreshToken(token)
                gone == IF token = NoToken THEN {}
                        ELSE Matching(before, tokenHash, Len(before))
            IN  /\ req'[p].pc = "done"
                /\ req'[p].res.status = 200
                /\ \A other \in DOMAIN users \ {id} : users'[other] = users[other]
                /\ DOMAIN users' = DOMAIN users
                /\ [users'[id] EXCEPT !.refreshTokens = before] = users[id]
                /\ Len(after) = Len(before) - Cardinality(gone)
                /\ \A i \in (1..Len(before)) \ gone :
                       after[i - Cardinality(gone \cap 1..i)] = before[i]
                /\ gone = {} => users' = users

C27_LogoutRemovesOnlyMatch == [][C27_LogoutStep]_vars

\* a logout took one live session out of a list that still holds another
C27_Witness ==
    \E p \in Slots :
        /\ Done(p, "logout")
        /\ req[p].tok \in issued
        /\ req[p].tok.userId = req[p].uid
        /\ req[p].tok \notin rotated \cup stale
        /\ req[p].t0 < req[p].tok.exp
        /\ LET sessions == users[req[p].uid].refreshTokens
           IN  /\ Len(sessions) >= 1
               /\ FindIndex(sessions, hashRefreshToken(req[p].tok)) = 0 - 1

(***************************************************************************)
(* changePassword's failures (SpecGuard).                                  *)
(***************************************************************************)
\* C28: changePassword fails NotFound when the user does not exist and
\* Unauthorized when currentPassword does not verify, and in both cases
\* leaves the stored password hash, the session list, loginAttempts and
\* lockUntil unchanged.
C28_ChangeFailsStep ==
    \A p \in Slots :
        Calls(p, "changePassword") =>
            /\ req'[p].uid \notin DOMAIN users
                   => /\ req'[p].pc = "done"
                      /\ req'[p].res.status = 404
                      /\ users' = users
            /\ (req'[p].uid \in DOMAIN users
                    /\ req'[p].pw # credential[req'[p].uid])
                   => /\ req'[p].pc = "done"
                      /\ req'[p].res.status = 401
                      /\ users' = users

C28_ChangePasswordFailures == [][C28_ChangeFailsStep]_vars

\* a wrong current password was refused while the user had a session and
\* failed attempts on record; the record still has the password it had
C28_Witness ==
    \E p \in Slots :
        /\ Done(p, "changePassword")
        /\ req[p].res.status = 401
        /\ req[p].pw # credential[req[p].uid]
        /\ LET stored == users[req[p].uid]
           IN  /\ stored.password = BcryptHash(credential[req[p].uid])
               /\ stored.refreshTokens # <<>>
               /\ stored.loginAttempts > 0

(***************************************************************************)
(* The invite fields (SpecOnboard).                                        *)
(***************************************************************************)
\* C29: in every reachable state, for every user, the invite token hash and
\* the invite expiry are either both present or both absent, after any
\* sequence of registerAdmin, createUser and setPassword.
C29_InviteFieldsTogether ==
    \A id \in DOMAIN users :
        (users[id].inviteToken = NoInvite)
            <=> (users[id].inviteTokenExpires = NoDate)

\* the admin never had an invite, one invited user has redeemed theirs and
\* carries neither field
C29_Witness ==
    \E i \in invited, a \in DOMAIN users :
        /\ users[a].role = "admin"
        /\ users[a].inviteToken = NoInvite
        /\ users[a].inviteTokenExpires = NoDate
        /\ i.raw \in redeemed
        /\ users[i.uid].hasSetPassword
        /\ users[i.uid].inviteToken = NoInvite
        /\ users[i.uid].inviteTokenExpires = NoDate

(***************************************************************************)
(* What a rotation removes (SpecLong).                                     *)
(***************************************************************************)
\* C30: a successful rotation removes from the user's session list only the
\* entry of the presented token and entries whose stored expiresAt has
\* passed; every other unexpired session entry of the user is still present
\* afterwards, also when the presented token's own entry has passed its
\* stored expiresAt while the token still verifies.
C30_RotationStep ==
    \A p \in Slots :
        (/\ req[p].pc = "refresh_rotate"
         /\ req'[p].pc = "done"
         /\ req'[p].res.status = 200)
        => LET before == users[req[p].uid].refreshTokens
               after == users'[req[p].uid].refreshTokens
           IN  \A i \in 1..Len(before) :
                   (/\ before[i].expiresAt > now
                    /\ before[i].tokenHash # hashRefreshToken(req[p].tok))
                   => \E j \in 1..Len(after) : after[j] = before[i]

C30_RotationKeepsOtherSessions == [][C30_RotationStep]_vars

(***************************************************************************)
(* Logins, two at a time (Spec).                                           *)
(***************************************************************************)
\* the session list of user id holds the hash of token
Registered(id, token) ==
    FindIndex(users[id].refreshTokens, hashRefreshToken(token)) # 0 - 1

\* C31: when two logins of the same user succeed concurrently, both
\* returned refresh tokens are registered: once both have completed, the
\* session list holds the hash of each returned token.
C31_ConcurrentLoginsRegistered ==
    \A p \in Slots, q \in Slots :
        (/\ Concurrent(p, q)
         /\ Done(p, "login") /\ Succeeded(p)
         /\ Done(q, "login") /\ Succeeded(q)
         /\ req[p].uid = req[q].uid)
        => /\ Registered(req[p].uid, req[p].res.tok)
           /\ Registered(req[q].uid, req[q].res.tok)

(***************************************************************************)
(* The end of a lockout (SpecLock).                                        *)
(***************************************************************************)
\* C32: a lockout is never permanent and is never extended by attempts made
\* during it: while a lock has not reached its lockUntil no step moves
\* lockUntil or loginAttempts, and a login with the correct password made
\* once time is past lockUntil is admitted, succeeds and returns the
\* account to loginAttempts = 0 with no lock.
C32_LockStep ==
    \A id \in DOMAIN users :
        (users[id].lockUntil # NoDate /\ now < users[id].lockUntil)
        => /\ users'[id].lockUntil = users[id].lockUntil
           /\ users'[id].loginAttempts = users[id].loginAttempts

C32_LockoutEnds ==
    /\ [][C32_LockStep]_vars
    /\ [](\A p \in Slots :
             (/\ LoginReached(p)
              /\ req[p].doc.lockUntil # NoDate
              /\ req[p].t0 > req[p].doc.lockUntil
              /\ req[p].pw = credential[req[p].uid])
             => /\ Succeeded(p)
                /\ req[p].res.tok # NoToken
                /\ users[req[p].uid].loginAttempts = 0
                /\ users[req[p].uid].lockUntil = NoDate)

\* five failures locked the account, another request followed, and a login
\* with the correct password made after lockUntil succeeded and cleared the
\* record
C32_Witness ==
    \E p \in Slots :
        /\ LoginReached(p)
        /\ req[p].doc.loginAttempts = MAX_LOGIN_ATTEMPTS
        /\ req[p].doc.lockUntil # NoDate
        /\ req[p].t0 > req[p].doc.lockUntil
        /\ req[p].streak = MAX_LOGIN_ATTEMPTS
        /\ nreq >= MAX_LOGIN_ATTEMPTS + 2
        /\ Succeeded(p)
        /\ users[req[p].uid].loginAttempts = 0
        /\ users[req[p].uid].lockUntil = NoDate

(***************************************************************************)
(* A token the cap evicted (SpecEvict).                                    *)
(***************************************************************************)
\* C33: a refresh token whose session entry was evicted by the 5-session
\* cap is treated as reuse when it is next presented: that
\* refreshAccessToken fails and all remaining sessions of the user are
\* revoked, and none of the newer refresh tokens whose sessions it revoked
\* is accepted by a rotation afterwards.
C33_EvictedTokenRevokesAll ==
    \A p \in Slots :
        /\ (RefreshReached(p) /\ req[p].evicted) =>
              /\ SessionInvalid(p)
              /\ users[req[p].uid].refreshTokens = <<>>
        /\ (Done(p, "refresh") /\ req[p].gone) => ~Succeeded(p)

====
